---- MODULE Spec2Model ----
(***************************************************************************)
(* CodeChase: the room / level / submission lifecycle and its row-level    *)
(* authorization, as the migrations declare the datastore and as the page  *)
(* handlers drive it.                                                      *)
(*                                                                         *)
(* The datastore is the five tables of the first migration with row-level  *)
(* security enabled on each; a statement is granted only by a policy the   *)
(* migrations create for that table and command.  The client library does  *)
(* not throw: every call resolves to {data, error}, and a handler sees an  *)
(* error only where it inspects that field.                                *)
(*                                                                         *)
(* A handler that awaits twice is two steps; other sessions interleave     *)
(* between them.  Handler parameters are drawn from small sets.            *)
(***************************************************************************)
EXTENDS Integers, FiniteSets, Sequences, TLC

\* ---- bounds ----
MaxUsers == 2          \* identities the identity provider issues
MaxOps == 5            \* handler calls and datastore requests after sign-up in a run
MaxChannels == 2       \* channels one page creates in a run
MaxNotes == 2          \* change notifications the notifier emits in a run

Identities == 1..MaxUsers
Usernames == {"neo", "trinity"}
RoomCodes == {"ABC123", "ZZZZZZ"}
Pages == {"Dashboard", "AdminDashboard", "Room"}
Statuses == {"waiting", "active"}
NoOne == 0
NoRoom == 0
SubmissionPoints == 100
LeaderboardLimit == 5

\* ---- outcomes of a datastore request (the error field of the response) ----
NoError == ""
RlsViolation == "42501 new row violates row-level security policy"
UniqueViolation == "23505 duplicate key value violates unique constraint"
ForeignKeyViolation == "23503 violates foreign key constraint"
UnknownColumn == "PGRST204 could not find the column in the schema cache"
UndefinedColumn == "42703 column does not exist"
PolicyRecursion == "42P17 infinite recursion detected in policy"
NoSingleRow == "PGRST116 result contains 0 or several rows"
RoomNotFound == "Room not found"

VARIABLES
    authUsers,          \* auth.users: identities issued by the identity provider
    users,              \* public.users rows
    rooms,              \* public.rooms rows
    room_participants,  \* public.room_participants rows
    levels,             \* public.levels rows
    submissions,        \* public.submissions rows
    insertedBy,         \* per table: <<row id, identity whose request inserted it, how>>
    pc,                 \* per session: the handler in flight and its locals
    last,               \* the request or handler that completed last, and its outcome
    ops,                \* requests started so far
    user,               \* AuthContext: the signed-in user of the browser session
    mounted,            \* per page: is the component mounted
    roomSubscription,   \* per page: the channel its effect holds (0: none)
    channels,           \* <<page, channel>> pairs subscribed at the realtime client
    made,               \* per page: channels created so far
    notes,              \* change notifications emitted so far
    refetches,          \* per page: refetches a notification has triggered
    missed              \* per page: notifications emitted after a teardown of the page

vars == <<authUsers, users, rooms, room_participants, levels, submissions,
          insertedBy, pc, last, ops,
          user, mounted, roomSubscription, channels, made, notes, refetches, missed>>

pageState == <<user, mounted, roomSubscription, channels, made, notes, refetches, missed>>

datastoreState == <<authUsers, users, rooms, room_participants, levels, submissions,
                    insertedBy, pc, last, ops>>

tables == <<authUsers, users, rooms, room_participants, levels, submissions, insertedBy>>

Idle == [op |-> "idle", room |-> NoRoom, status |-> "", dberror |-> "", pre |-> FALSE]

\* dberror: the error field of the reply the handler has awaited so far
InFlight(op, room, status, dberror, pre) ==
    [op |-> op, room |-> room, status |-> status, dberror |-> dberror, pre |-> pre]

\* What a completed request or handler call left behind: its arguments (by,
\* room, code, owner, status), pre (a fact about the tables when it wrote),
\* dberror (the error field of its last datastore reply), error (the message
\* the handler put in its page's error state), added (rows it added), nav
\* (the room it navigated to) and rows (the rows a select returned).
Outcome(op, by, room, code, owner, status, pre, dberror, error, added, nav, rows) ==
    [op |-> op, by |-> by, room |-> room, code |-> code, owner |-> owner,
     status |-> status, pre |-> pre, dberror |-> dberror, error |-> error,
     added |-> added, nav |-> nav, rows |-> rows]

Nothing ==
    Outcome("none", NoOne, NoRoom, "", NoOne, "", FALSE, NoError, NoError, 0, NoRoom, {})

Init ==
    /\ authUsers = {}
    /\ users = {}
    /\ rooms = {}
    /\ room_participants = {}
    /\ levels = {}
    /\ submissions = {}
    /\ insertedBy = [users |-> {}, rooms |-> {}, submissions |-> {}]
    /\ pc = [u \in Identities |-> Idle]
    /\ last = Nothing
    /\ ops = 0
    /\ user = NoOne
    /\ mounted = [p \in Pages |-> FALSE]
    /\ roomSubscription = [p \in Pages |-> 0]
    /\ channels = {}
    /\ made = [p \in Pages |-> 0]
    /\ notes = 0
    /\ refetches = [p \in Pages |-> 0]
    /\ missed = [p \in Pages |-> 0]

\* ---------------------------------------------------------------------------
\* Schema (first migration, CREATE TABLE statements)
\* ---------------------------------------------------------------------------

\* Columns of public.levels.  The table has no status column.
LevelColumns ==
    {"id", "room_id", "title", "description", "initial_code", "test_cases",
     "movie_reference", "difficulty", "created_at"}

\* Keys of each level object createRoom sends.
SeedLevelKeys ==
    {"title", "description", "initial_code", "test_cases", "movie_reference",
     "difficulty", "room_id", "status"}

\* The default levels createRoom seeds, in the order of the array.
SeedTitles ==
    <<"The Matrix's Digital Rain", "Inception's Dream Levels",
      "Back to the Future Time Circuits">>

HasProfile(id) == \E p \in users : p.id = id
RoomWithId(id) == CHOOSE r \in rooms : r.id = id
RoomExists(id) == \E r \in rooms : r.id = id
LevelExists(id) == \E l \in levels : l.id = id
IsParticipant(uid, roomId) ==
    \E p \in room_participants : p.room_id = roomId /\ p.user_id = uid

\* ---------------------------------------------------------------------------
\* Row-level policies.  Row-level security is enabled on every table, so a
\* command for which the migrations create no policy is granted for no row.
\* ---------------------------------------------------------------------------

\* a USING that shows every profile row to any identity
UsersSelectUsingAnyone(uid, row) == TRUE
UsersSelectUsing(uid, row) == uid = row.id
UsersInsertCheck(uid, row) == uid = row.id

RoomsSelectUsing(uid, row) == TRUE
\* a WITH CHECK that lets any authenticated identity insert any room
RoomsInsertCheckAnyone(uid, row) == TRUE
RoomsInsertCheck(uid, row) == uid = row.created_by
\* a USING that lets any authenticated identity update any room
RoomsUpdateUsingAnyone(uid, row) == TRUE
RoomsUpdateUsing(uid, row) == FALSE

\* Inside the policy's sub-select both room_id and room_participants.room_id
\* name the row of the sub-select's own FROM item, so the room comparison holds
\* of every row and only the user_id conjunct restricts.
ParticipantsSelectUsing(uid, row) ==
    \E p \in room_participants : p.room_id = p.room_id /\ p.user_id = uid
ParticipantsInsertCheck(uid, row) == uid = row.user_id

LevelsSelectUsing(uid, row) ==
    \E p \in room_participants : p.room_id = row.room_id /\ p.user_id = uid
LevelsInsertCheck(uid, row) == FALSE
LevelsUpdateUsing(uid, row) == FALSE

SubmissionsSelectUsing(uid, row) == uid = row.user_id
\* a WITH CHECK that lets any authenticated identity insert any submission
SubmissionsInsertCheckAnyone(uid, row) == TRUE
SubmissionsInsertCheck(uid, row) == uid = row.user_id

\* The tables the sub-select of each table's SELECT policy reads.
SelectPolicyReads ==
    [users |-> {}, rooms |-> {}, room_participants |-> {"room_participants"},
     levels |-> {"room_participants"}, submissions |-> {}]

\* Expanding the SELECT policy of a table applies the SELECT policies of the
\* tables its sub-select reads; a policy that comes back to a table already
\* being expanded is rejected when the statement is rewritten.
RecursionDetected(table) ==
    \/ table \in SelectPolicyReads[table]
    \/ \E t \in SelectPolicyReads[table] : t \in SelectPolicyReads[t]

\* ---------------------------------------------------------------------------
\* Datastore requests as identity uid: [error, rows] with rows the table after
\* the request (insert, update) or the rows returned (select).
\* ---------------------------------------------------------------------------

Reply(error, rows) == [error |-> error, rows |-> rows]

\* Row ids (gen_random_uuid()): a value no other row of the table has.  The
\* model draws it from the row's content, so that the same rows inserted in a
\* different order are the same table.
NextId(table) == Cardinality(table) + 1
RoomId(code) == IF code = "ABC123" THEN 1 ELSE 2
ParticipantId(roomId, uid) ==
    <<roomId, uid,
      Cardinality({p \in room_participants : p.room_id = roomId /\ p.user_id = uid})>>

\* auth: the identities the identity provider has issued when the row arrives
InsertUser(uid, row, auth) ==
    IF ~UsersInsertCheck(uid, row) THEN Reply(RlsViolation, users)
    ELSE IF \E p \in users : p.id = row.id \/ p.username = row.username
         THEN Reply(UniqueViolation, users)
    ELSE IF row.id \notin auth THEN Reply(ForeignKeyViolation, users)
    ELSE Reply(NoError, users \cup {row})

InsertRoom(uid, row) ==
    IF ~RoomsInsertCheck(uid, row) THEN Reply(RlsViolation, rooms)
    ELSE IF \E r \in rooms : r.code = row.code THEN Reply(UniqueViolation, rooms)
    ELSE IF ~HasProfile(row.created_by) THEN Reply(ForeignKeyViolation, rooms)
    ELSE Reply(NoError, rooms \cup {row})

\* the insert without the UNIQUE(room_id, user_id) constraint
InsertParticipantNoUnique(uid, row) ==
    IF ~ParticipantsInsertCheck(uid, row) THEN Reply(RlsViolation, room_participants)
    ELSE IF ~RoomExists(row.room_id) \/ ~HasProfile(row.user_id)
         THEN Reply(ForeignKeyViolation, room_participants)
    ELSE Reply(NoError, room_participants \cup {row})

InsertParticipant(uid, row) ==
    IF ~ParticipantsInsertCheck(uid, row) THEN Reply(RlsViolation, room_participants)
    ELSE IF \E p \in room_participants :
                p.room_id = row.room_id /\ p.user_id = row.user_id
         THEN Reply(UniqueViolation, room_participants)
    ELSE IF ~RoomExists(row.room_id) \/ ~HasProfile(row.user_id)
         THEN Reply(ForeignKeyViolation, room_participants)
    ELSE Reply(NoError, room_participants \cup {row})

SeedRows(roomId) ==
    {[id |-> Len(SeedTitles) * (roomId - 1) + i, room_id |-> roomId, seed |-> i,
      status |-> "waiting"]
        : i \in 1..Len(SeedTitles)}

\* roomRows: the rooms table when the rows arrive
InsertLevels(uid, roomId, roomRows) ==
    IF ~(SeedLevelKeys \subseteq LevelColumns) THEN Reply(UnknownColumn, levels)
    ELSE IF \E row \in SeedRows(roomId) : ~LevelsInsertCheck(uid, row)
         THEN Reply(RlsViolation, levels)
    ELSE IF ~\E r \in roomRows : r.id = roomId THEN Reply(ForeignKeyViolation, levels)
    ELSE Reply(NoError, levels \cup SeedRows(roomId))

InsertSubmission(uid, row) ==
    IF ~SubmissionsInsertCheck(uid, row) THEN Reply(RlsViolation, submissions)
    ELSE IF ~HasProfile(row.user_id) \/ ~LevelExists(row.level_id)
         THEN Reply(ForeignKeyViolation, submissions)
    ELSE Reply(NoError, submissions \cup {row})

\* update levels set status = 'active' where room_id = roomId and
\* status = 'waiting', limited to one row: the possible replies.
UpdateLevelsReplies(uid, roomId) ==
    IF "status" \notin LevelColumns THEN {Reply(UndefinedColumn, levels)}
    ELSE LET hit == {l \in levels : /\ l.room_id = roomId
                                    /\ l.status = "waiting"
                                    /\ LevelsUpdateUsing(uid, l)}
         IN IF hit = {} THEN {Reply(NoError, levels)}
            ELSE {Reply(NoError, (levels \ {l}) \cup {[l EXCEPT !.status = "active"]})
                    : l \in hit}

\* update rooms set status = newStatus where id = roomId
UpdateRoomStatus(uid, roomId, newStatus) ==
    Reply(NoError,
          {IF r.id = roomId /\ RoomsSelectUsing(uid, r) /\ RoomsUpdateUsing(uid, r)
              THEN [r EXCEPT !.status = newStatus] ELSE r : r \in rooms})

\* select id from rooms where code = code, .single()
SelectRoomByCode(uid, code) ==
    LET hit == {r \in rooms : r.code = code /\ RoomsSelectUsing(uid, r)}
    IN IF Cardinality(hit) = 1 THEN Reply(NoError, hit) ELSE Reply(NoSingleRow, {})

\* a select that reports no error, whatever it finds
SelectActiveLevelNoError(uid, roomId) ==
    LET hit == {l \in levels : l.room_id = roomId /\ l.status = "active"}
    IN Reply(NoError, IF Cardinality(hit) = 1 THEN hit ELSE {})

\* select * from levels where room_id = roomId and status = 'active', .single()
SelectActiveLevel(uid, roomId) ==
    IF "status" \notin LevelColumns THEN Reply(UndefinedColumn, {})
    ELSE IF RecursionDetected("levels") THEN Reply(PolicyRecursion, {})
    ELSE LET hit == {l \in levels : /\ l.room_id = roomId
                                    /\ l.status = "active"
                                    /\ LevelsSelectUsing(uid, l)}
         IN IF Cardinality(hit) = 1 THEN Reply(NoError, hit) ELSE Reply(NoSingleRow, {})

\* select *, room_participants(count) from rooms where created_by = uid:
\* the embedded count reads room_participants under its SELECT policy
SelectOwnRooms(uid) ==
    IF RecursionDetected("room_participants") THEN Reply(PolicyRecursion, {})
    ELSE Reply(NoError, {r \in rooms : r.created_by = uid /\ RoomsSelectUsing(uid, r)})

\* select username, points from users order by points desc limit 5
SelectTopUsers(uid) ==
    LET hit == {p \in users : UsersSelectUsing(uid, p)}
        n == IF Cardinality(hit) < LeaderboardLimit THEN Cardinality(hit)
             ELSE LeaderboardLimit
        top == CHOOSE S \in SUBSET hit :
                  /\ Cardinality(S) = n
                  /\ \A a \in S, b \in hit \ S : a.points >= b.points
    IN Reply(NoError, {[username |-> p.username, points |-> p.points] : p \in top})

\* the same select with the membership test moved out of the policy's own
\* table (no recursion), the predicate left as the policy words it
SelectParticipantsNoRecursion(uid) ==
    Reply(NoError, {p \in room_participants : ParticipantsSelectUsing(uid, p)})

\* select * from room_participants
SelectParticipants(uid) ==
    IF RecursionDetected("room_participants") THEN Reply(PolicyRecursion, {})
    ELSE Reply(NoError, {p \in room_participants : ParticipantsSelectUsing(uid, p)})

\* ---------------------------------------------------------------------------
\* AuthContext.signUp (called by Register.handleSubmit)
\* ---------------------------------------------------------------------------

\* The identity provider issues the identity, then the profile row is inserted
\* as that identity.
SignUp(name) ==
    LET id == Cardinality(authUsers) + 1
        reply == InsertUser(id, [id |-> id, username |-> name, points |-> 0],
                            authUsers \cup {id})
    IN
    /\ id \in Identities
    /\ authUsers' = authUsers \cup {id}
    /\ users' = reply.rows
    /\ insertedBy' = IF reply.error = NoError
                     THEN [insertedBy EXCEPT !.users = @ \cup {<<id, id>>}]
                     ELSE insertedBy
    /\ last' = Outcome("signUp", id, NoRoom, "", id, "", FALSE, reply.error,
                       reply.error, Cardinality(reply.rows) - Cardinality(users),
                       NoRoom, {})
    /\ UNCHANGED <<rooms, room_participants, levels, submissions, pc, ops>>
    /\ UNCHANGED pageState

\* ---------------------------------------------------------------------------
\* AdminDashboard.createRoom
\* ---------------------------------------------------------------------------

\* a catch block that deletes the room when the levels insert failed
RoomsAfterCreateRoomRollback(roomReply, seeded) ==
    IF seeded.error # NoError THEN rooms ELSE roomReply.rows

\* The rooms table when createRoom returns, the room insert having succeeded:
\* neither the code after the levels insert nor the catch block writes to it.
RoomsAfterCreateRoom(roomReply, seeded) == roomReply.rows

CreateRoom(u, code) ==
    /\ ops < MaxOps
    /\ u \in authUsers
    /\ pc[u].op = "idle"
    /\ ops' = ops + 1
    /\ LET id == RoomId(code)
           reply == InsertRoom(u, [id |-> id, code |-> code, status |-> "waiting",
                                   created_by |-> u])
           seeded == InsertLevels(u, id, reply.rows)
       IN IF reply.error # NoError
          THEN \* if (roomError) throw roomError
               /\ last' = Outcome("createRoom", u, NoRoom, code, u, "waiting", FALSE,
                                  reply.error, reply.error, 0, NoRoom, {})
               /\ UNCHANGED <<rooms, levels, insertedBy>>
          ELSE /\ rooms' = RoomsAfterCreateRoom(reply, seeded)
               /\ insertedBy' = [insertedBy EXCEPT !.rooms = @ \cup {<<id, u, "createRoom">>}]
               /\ levels' = seeded.rows
               \* if (levelsError) throw levelsError
               /\ last' = Outcome("createRoom", u, id, code, u, "waiting", FALSE,
                                  seeded.error, seeded.error,
                                  Cardinality(seeded.rows) - Cardinality(levels), NoRoom, {})
    /\ UNCHANGED <<authUsers, users, room_participants, submissions, pc>>
    /\ UNCHANGED pageState

\* ---------------------------------------------------------------------------
\* Dashboard.handleJoinRoom
\* ---------------------------------------------------------------------------

HandleJoinRoom(u, code) ==
    /\ ops < MaxOps
    /\ u \in authUsers
    /\ pc[u].op = "idle"
    /\ ops' = ops + 1
    /\ LET found == SelectRoomByCode(u, code) IN
       IF found.rows = {}
       THEN /\ last' = Outcome("join", u, NoRoom, code, u, "",
                               \E r \in rooms : r.code = code, found.error,
                               RoomNotFound, 0, NoRoom, {})
            /\ UNCHANGED room_participants
       ELSE LET room == (CHOOSE r \in found.rows : TRUE).id
                reply == InsertParticipant(u, [id |-> ParticipantId(room, u),
                                               room_id |-> room, user_id |-> u])
            IN /\ room_participants' = reply.rows
               \* the reply is not inspected: the handler navigates whatever it says
               /\ last' = Outcome("join", u, room, code, u, "", IsParticipant(u, room),
                                  reply.error, NoError,
                                  Cardinality(reply.rows) - Cardinality(room_participants),
                                  room, {})
    /\ UNCHANGED <<authUsers, users, rooms, levels, submissions, insertedBy, pc>>
    /\ UNCHANGED pageState

\* ---------------------------------------------------------------------------
\* AdminDashboard.toggleRoomStatus(roomId, currentStatus).  The page lists the
\* rooms whose created_by is the session's user, each with the status fetched.
\* ---------------------------------------------------------------------------

ToggleRoomStatus(u, roomId) ==
    /\ ops < MaxOps
    /\ u \in authUsers
    /\ pc[u].op = "idle"
    /\ RoomExists(roomId)
    /\ RoomWithId(roomId).created_by = u
    /\ ops' = ops + 1
    /\ LET currentStatus == RoomWithId(roomId).status
           newStatus == IF currentStatus = "active" THEN "waiting" ELSE "active"
           replies == IF newStatus = "active" THEN UpdateLevelsReplies(u, roomId)
                      ELSE {Reply(NoError, levels)}
       IN \E reply \in replies :
            /\ levels' = reply.rows
            \* the reply is not inspected
            /\ pc' = [pc EXCEPT ![u] =
                         InFlight("toggle", roomId, newStatus, reply.error,
                                  currentStatus = "waiting")]
    /\ UNCHANGED <<authUsers, users, rooms, room_participants, submissions, insertedBy, last>>
    /\ UNCHANGED pageState

ToggleRoomStatusRoom(u) ==
    /\ pc[u].op = "toggle"
    /\ LET reply == UpdateRoomStatus(u, pc[u].room, pc[u].status) IN
        /\ rooms' = reply.rows
        \* this reply is not inspected either: no error state is set
        /\ last' = Outcome("toggle", u, pc[u].room, "", u, pc[u].status, pc[u].pre,
                           IF pc[u].dberror # NoError THEN pc[u].dberror ELSE reply.error,
                           NoError, 0, NoRoom, {})
    /\ pc' = [pc EXCEPT ![u] = Idle]
    /\ UNCHANGED <<authUsers, users, room_participants, levels, submissions, insertedBy, ops>>
    /\ UNCHANGED pageState

\* ---------------------------------------------------------------------------
\* Dashboard.fetchData (run when the page mounts): the leaderboard query.  The
\* active-rooms query before it is not modelled; its result is not used here.
\* ---------------------------------------------------------------------------

FetchData(u) ==
    /\ ops < MaxOps
    /\ u \in authUsers
    /\ pc[u].op = "idle"
    /\ ops' = ops + 1
    /\ LET reply == SelectTopUsers(u) IN
       last' = Outcome("fetchData", u, NoRoom, "", u, "", FALSE,
                       reply.error, NoError, 0, NoRoom, reply.rows)
    /\ UNCHANGED <<tables, pc>>
    /\ UNCHANGED pageState

\* ---------------------------------------------------------------------------
\* Room.fetchRoomData for the route /room/:id (run when the page mounts)
\* ---------------------------------------------------------------------------

FetchRoomData(u, roomId) ==
    /\ ops < MaxOps
    /\ u \in authUsers
    /\ pc[u].op = "idle"
    /\ ops' = ops + 1
    /\ LET level == SelectActiveLevel(u, roomId)
           error == IF ~RoomExists(roomId) THEN NoSingleRow ELSE level.error
           \* currentLevel is set only when neither select returned an error
           shown == IF error = NoError THEN level.rows ELSE {}
       IN last' = Outcome("fetchRoomData", u, roomId, "", u, "", IsParticipant(u, roomId),
                          error, error, 0, NoRoom, shown)
    /\ UNCHANGED <<tables, pc>>
    /\ UNCHANGED pageState

\* ---------------------------------------------------------------------------
\* Requests an authenticated identity sends to the datastore itself: the
\* policies, not the pages, decide them.
\* ---------------------------------------------------------------------------

\* A profile row in another identity's name (the pages insert only the
\* caller's own, in signUp).  The row carries a username no profile uses
\* when there is one.
RestInsertUser(u, owner) ==
    /\ ops < MaxOps
    /\ u \in authUsers
    /\ owner # u
    /\ pc[u].op = "idle"
    /\ ops' = ops + 1
    /\ LET free == {n \in Usernames : \A p \in users : p.username # n}
           name == IF free # {} THEN CHOOSE n \in free : TRUE
                   ELSE CHOOSE n \in Usernames : TRUE
           reply == InsertUser(u, [id |-> owner, username |-> name, points |-> 0],
                               authUsers)
       IN /\ users' = reply.rows
          /\ insertedBy' = IF reply.error = NoError
                           THEN [insertedBy EXCEPT !.users = @ \cup {<<owner, u>>}]
                           ELSE insertedBy
          /\ last' = Outcome("insertUser", u, NoRoom, "", owner, "", FALSE,
                             reply.error, reply.error,
                             Cardinality(reply.rows) - Cardinality(users), NoRoom, {})
    /\ UNCHANGED <<authUsers, rooms, room_participants, levels, submissions, pc>>
    /\ UNCHANGED pageState

\* A room in another user's name (the pages insert only the caller's own, in
\* createRoom).
RestInsertRoom(u, owner, code) ==
    /\ ops < MaxOps
    /\ u \in authUsers
    /\ owner # u
    /\ pc[u].op = "idle"
    /\ ops' = ops + 1
    /\ LET id == RoomId(code)
           reply == InsertRoom(u, [id |-> id, code |-> code, status |-> "waiting",
                                   created_by |-> owner])
       IN /\ rooms' = reply.rows
          /\ insertedBy' = IF reply.error = NoError
                           THEN [insertedBy EXCEPT !.rooms = @ \cup {<<id, u, "rest">>}]
                           ELSE insertedBy
          /\ last' = Outcome("insertRoom", u, id, code, owner, "waiting", FALSE,
                             reply.error, reply.error,
                             Cardinality(reply.rows) - Cardinality(rooms), NoRoom, {})
    /\ UNCHANGED <<authUsers, users, room_participants, levels, submissions, pc>>
    /\ UNCHANGED pageState

\* The request asks for the status the room does not have.
RestUpdateRoomStatus(u, roomId) ==
    /\ ops < MaxOps
    /\ u \in authUsers
    /\ pc[u].op = "idle"
    /\ RoomExists(roomId)
    /\ ops' = ops + 1
    /\ LET newStatus == IF RoomWithId(roomId).status = "active" THEN "waiting"
                        ELSE "active"
           reply == UpdateRoomStatus(u, roomId, newStatus)
       IN
        /\ rooms' = reply.rows
        /\ last' = Outcome("updateRoom", u, roomId, "", RoomWithId(roomId).created_by,
                           newStatus, TRUE, reply.error, reply.error, 0, NoRoom, {})
    /\ UNCHANGED <<authUsers, users, room_participants, levels, submissions, insertedBy, pc>>
    /\ UNCHANGED pageState

RestInsertSubmission(u, owner, levelId) ==
    /\ ops < MaxOps
    /\ u \in authUsers
    /\ pc[u].op = "idle"
    /\ ops' = ops + 1
    /\ LET id == NextId(submissions)
           reply == InsertSubmission(u, [id |-> id, user_id |-> owner, level_id |-> levelId,
                                         status |-> "completed",
                                         points |-> SubmissionPoints])
       IN /\ submissions' = reply.rows
          /\ insertedBy' = IF reply.error = NoError
                           THEN [insertedBy EXCEPT !.submissions = @ \cup {<<id, u, "rest">>}]
                           ELSE insertedBy
          /\ last' = Outcome("insertSubmission", u, levelId, "", owner, "completed", FALSE,
                             reply.error, reply.error,
                             Cardinality(reply.rows) - Cardinality(submissions), NoRoom, {})
    /\ UNCHANGED <<authUsers, users, rooms, room_participants, levels, pc>>
    /\ UNCHANGED pageState

RestSelectParticipants(u) ==
    /\ ops < MaxOps
    /\ u \in authUsers
    /\ pc[u].op = "idle"
    /\ ops' = ops + 1
    /\ LET reply == SelectParticipants(u) IN
       last' = Outcome("selectParticipants", u, NoRoom, "", u, "", FALSE,
                       reply.error, reply.error, 0, NoRoom, reply.rows)
    /\ UNCHANGED <<tables, pc>>
    /\ UNCHANGED pageState

RoomIds == {RoomId(code) : code \in RoomCodes}
LevelIds == {l.id : l \in levels} \cup {1}

Next ==
    \/ \E name \in Usernames : SignUp(name)
    \/ \E u \in Identities, code \in RoomCodes : CreateRoom(u, code)
    \/ \E u \in Identities, code \in RoomCodes : HandleJoinRoom(u, code)
    \/ \E u \in Identities, r \in RoomIds : ToggleRoomStatus(u, r)
    \/ \E u \in Identities : ToggleRoomStatusRoom(u)
    \/ \E u \in Identities : FetchData(u)
    \/ \E u \in Identities, r \in RoomIds : FetchRoomData(u, r)
    \/ \E u, owner \in Identities : RestInsertUser(u, owner)
    \/ \E u, owner \in Identities, code \in RoomCodes : RestInsertRoom(u, owner, code)
    \/ \E u \in Identities, r \in RoomIds : RestUpdateRoomStatus(u, r)
    \/ \E u, owner \in Identities, l \in LevelIds : RestInsertSubmission(u, owner, l)
    \/ \E u \in Identities : RestSelectParticipants(u)

Spec == Init /\ [][Next]_vars

\* ---------------------------------------------------------------------------
\* The pages' effects (Dashboard, AdminDashboard, Room): with a user, fetch,
\* then subscribe one channel to the changes of public.rooms with the fetch as
\* its callback; the effect's cleanup unsubscribes that channel.  The notifier
\* is the environment: it emits a notification when it pleases and the client
\* runs the callback of every channel subscribed at that moment.
\* ---------------------------------------------------------------------------

\* a cleanup that leaves the channel subscribed
CleanupKeepsChannel(page) == channels

\* return () => { roomSubscription.unsubscribe(); }
Cleanup(page) == channels \ {<<page, roomSubscription[page]>>}

\* supabase.channel(..).on('postgres_changes', {table: 'rooms'}, fetch).subscribe()
Subscribe(page, chans) == chans \cup {<<page, made[page] + 1>>}

\* AuthContext: onAuthStateChange sets the user after signIn
SignIn(u) ==
    /\ user = NoOne
    /\ user' = u
    /\ UNCHANGED <<mounted, roomSubscription, channels, made, notes, refetches, missed>>
    /\ UNCHANGED datastoreState

\* The route renders the page.  Without a user the effect navigates to '/'
\* and subscribes nothing, and the page is gone again: only the mount with a
\* user leaves a state behind.
Mount(page) ==
    /\ user # NoOne
    /\ ~mounted[page]
    /\ made[page] < MaxChannels
    /\ mounted' = [mounted EXCEPT ![page] = TRUE]
    /\ channels' = Subscribe(page, channels)
    /\ roomSubscription' = [roomSubscription EXCEPT ![page] = made[page] + 1]
    /\ made' = [made EXCEPT ![page] = @ + 1]
    /\ UNCHANGED <<user, notes, refetches, missed>>
    /\ UNCHANGED datastoreState

\* The route changes: the effect's cleanup runs.
Unmount(page) ==
    /\ mounted[page]
    /\ mounted' = [mounted EXCEPT ![page] = FALSE]
    /\ channels' = Cleanup(page)
    /\ roomSubscription' = [roomSubscription EXCEPT ![page] = 0]
    /\ UNCHANGED <<user, made, notes, refetches, missed>>
    /\ UNCHANGED datastoreState

\* onAuthStateChange hands the context a new user object for the same session
\* (a refreshed token): user is a dependency of each effect, so a mounted
\* page runs its cleanup and then its effect again.
UserChanged(page) ==
    /\ user # NoOne
    /\ mounted[page]
    /\ made[page] < MaxChannels
    /\ channels' = Subscribe(page, Cleanup(page))
    /\ roomSubscription' = [roomSubscription EXCEPT ![page] = made[page] + 1]
    /\ made' = [made EXCEPT ![page] = @ + 1]
    /\ UNCHANGED <<user, mounted, notes, refetches, missed>>
    /\ UNCHANGED datastoreState

\* signOut: user becomes null; every mounted page runs its cleanup, and its
\* effect navigates to '/' without subscribing.
SignOut ==
    /\ user # NoOne
    /\ user' = NoOne
    /\ mounted' = [p \in Pages |-> FALSE]
    /\ channels' = {c \in channels : \A p \in Pages : mounted[p] => c \in Cleanup(p)}
    /\ roomSubscription' = [p \in Pages |-> 0]
    /\ UNCHANGED <<made, notes, refetches, missed>>
    /\ UNCHANGED datastoreState

\* The notifier reports a change of public.rooms: the callback of every
\* subscribed channel runs, and the callback is the page's fetch.
Notify ==
    /\ notes < MaxNotes
    /\ notes' = notes + 1
    /\ refetches' = [p \in Pages |->
                        refetches[p] + Cardinality({c \in channels : c[1] = p})]
    /\ missed' = [p \in Pages |->
                     IF ~mounted[p] /\ made[p] > 0 THEN missed[p] + 1 ELSE missed[p]]
    /\ UNCHANGED <<user, mounted, roomSubscription, channels, made>>
    /\ UNCHANGED datastoreState

PageNext ==
    \/ \E u \in Identities : SignIn(u)
    \/ \E page \in Pages : Mount(page)
    \/ \E page \in Pages : Unmount(page)
    \/ \E page \in Pages : UserChanged(page)
    \/ SignOut
    \/ Notify

PageSpec == Init /\ [][PageNext]_vars

\* ===========================================================================
\* Claims
\* ===========================================================================

\* C1: every Submission row carries the identity of the user whose request
\* inserted it; an insert by user U of a Submission whose user_id is not U is
\* denied by the policy and leaves the submissions table unchanged.
SubmissionOwnership ==
    /\ \A s \in submissions : <<s.id, s.user_id, "rest">> \in insertedBy.submissions
    /\ (last.op = "insertSubmission" /\ last.owner # last.by) =>
          (last.dberror = RlsViolation /\ last.added = 0)

\* C1 witness: a user with a profile has just tried to insert a Submission
\* naming another user who has a profile too.
ForeignSubmissionTried ==
    /\ last.op = "insertSubmission"
    /\ last.owner # last.by
    /\ HasProfile(last.owner)
    /\ HasProfile(last.by)

\* C2: every Room row carries in created_by the identity of the user whose
\* request inserted it; an insert by user U of a Room whose created_by is
\* another user is denied by the policy and leaves the rooms table unchanged.
RoomOwnership ==
    /\ \A r \in rooms : \E how \in {"createRoom", "rest"} :
          <<r.id, r.created_by, how>> \in insertedBy.rooms
    /\ (last.op = "insertRoom" /\ last.owner # last.by) =>
          (last.dberror = RlsViolation /\ last.added = 0)

\* C2 witness: with a room already created, a user has just tried to insert a
\* room in another profile's name under a code no room uses.
ForeignRoomTried ==
    /\ last.op = "insertRoom"
    /\ last.owner # last.by
    /\ HasProfile(last.owner)
    /\ rooms # {}
    /\ \A r \in rooms : r.code # last.code /\ r.created_by = last.owner

\* C3: joining a room twice with the same (room, user) pair fails the second
\* time: there is at most one RoomParticipant row per (room_id, user_id), and
\* a join of a pair that is already there is reported as a failure (an error
\* message, no navigation to the room).
SecondJoinFails ==
    /\ \A p, q \in room_participants :
          (p.room_id = q.room_id /\ p.user_id = q.user_id) => p = q
    /\ (last.op = "join" /\ last.room # NoRoom /\ last.pre) =>
          (last.error # NoError /\ last.nav = NoRoom)

CreateRoomSeedsLevels ==
    (last.op = "createRoom" /\ last.room # NoRoom) =>
        /\ last.error = NoError
        /\ RoomWithId(last.room).status = "waiting"
        /\ RoomWithId(last.room).created_by = last.by
        /\ Cardinality({l \in levels : l.room_id = last.room}) = Len(SeedTitles)
        /\ \A l \in levels : l.room_id = last.room => l.status = "waiting"

\* C10: a select on room_participants returns to a user only rows of rooms in
\* which that user has a participant row: nothing to a user with no
\* membership, and no row of room B to a user who is in room A only.
ParticipantReadsScoped ==
    last.op = "selectParticipants" =>
        \A p \in last.rows : IsParticipant(last.by, p.room_id)

\* C10 witness: a user who is in one room and not in another, which has a
\* participant, has just read room_participants.
MemberOfOneRoomRead ==
    /\ last.op = "selectParticipants"
    /\ \E a, b \in rooms :
          /\ IsParticipant(last.by, a.id)
          /\ ~IsParticipant(last.by, b.id)
          /\ \E p \in room_participants : p.room_id = b.id

RoomStatusByCreatorOnly ==
    /\ [](\A r \in rooms : r.status \in Statuses)
    /\ [][\A r \in rooms : \A q \in rooms' :
             (q.id = r.id /\ q.status # r.status) =>
                 /\ pc[r.created_by].op = "toggle"
                 /\ pc[r.created_by].room = r.id
                 /\ pc'[r.created_by].op = "idle"]_vars

\* C13 witness: a user who did not create the room has just asked the
\* datastore to set the room's status to the value it does not have.
ForeignStatusUpdateTried ==
    /\ last.op = "updateRoom"
    /\ last.owner # last.by
    /\ last.pre
    /\ HasProfile(last.by)

\* C15: whenever a datastore request of handleJoinRoom, toggleRoomStatus or
\* createRoom comes back with an error, the handler sets its page's error
\* message and does not go on as if the write had succeeded (it does not
\* navigate to the room).
HandlerFailuresSurface ==
    (last.op \in {"join", "toggle", "createRoom"} /\ last.dberror # NoError) =>
        (last.error # NoError /\ last.nav = NoRoom)

\* C16: every identity created at the identity provider has exactly one
\* profile row in users, with id equal to that identity, and no two profile
\* rows share a username.
OneProfilePerIdentity ==
    /\ \A id \in authUsers : Cardinality({p \in users : p.id = id}) = 1
    /\ \A p, q \in users : p.username = q.username => p = q

\* C18: when createRoom's room insert succeeds and its levels insert fails,
\* the call ends with the error message set and the Room row stored with no
\* Level row; and no step removes a stored room.
OrphanRoomRemains ==
    /\ []((last.op = "createRoom" /\ last.room # NoRoom /\ last.dberror # NoError) =>
            /\ last.error # NoError
            /\ RoomExists(last.room)
            /\ RoomWithId(last.room).created_by = last.by
            /\ {l \in levels : l.room_id = last.room} = {})
    /\ [][\A r \in rooms : \E q \in rooms' : q.id = r.id]_vars

\* C18 witness: a createRoom call has just ended whose room insert was
\* accepted and whose levels insert was rejected.
LevelsInsertFailedAfterRoom ==
    /\ last.op = "createRoom"
    /\ last.room # NoRoom
    /\ last.dberror # NoError
    /\ RoomExists(last.room)

\* C19: each mounted page has a signed-in user and holds exactly one
\* subscribed channel, an unmounted page none; a notification emitted while
\* a page is mounted triggers exactly one refetch of that page, and a page
\* refetches on no other occasion, in particular not after its teardown.
OneSubscriptionWhileMounted ==
    /\ [](\A p \in Pages :
            /\ mounted[p] => user # NoOne
            /\ Cardinality({c \in channels : c[1] = p}) = (IF mounted[p] THEN 1 ELSE 0))
    /\ [][\A p \in Pages :
             /\ (notes' # notes /\ mounted[p]) => refetches'[p] = refetches[p] + 1
             /\ refetches'[p] # refetches[p] => (notes' # notes /\ mounted[p])]_vars

\* C19 witness: a page that refetched on a notification while mounted has
\* since been torn down and a later notification has been emitted, while
\* another page is mounted and has refetched.
NotifiedAfterTeardown ==
    \E p, q \in Pages :
        /\ refetches[p] > 0
        /\ ~mounted[p]
        /\ missed[p] > 0
        /\ mounted[q]
        /\ refetches[q] > 0

\* C22: the Room view gets a current level from fetchRoomData only when the
\* room has exactly one active level, which is then the level shown; when
\* the room has no active level, or two or more, fetchRoomData ends with the
\* page's error set and no level shown.
CurrentLevelOnlyWhenOneActive ==
    last.op = "fetchRoomData" =>
        LET active == {l \in levels : l.room_id = last.room /\ l.status = "active"}
        IN /\ last.rows # {} => (Cardinality(active) = 1 /\ last.rows = active)
           /\ Cardinality(active) # 1 => (last.error # NoError /\ last.rows = {})

\* C22 witness: a participant of a waiting room that was never activated has
\* just opened the room's page.
WaitingRoomOpened ==
    /\ last.op = "fetchRoomData"
    /\ RoomExists(last.room)
    /\ last.pre
    /\ RoomWithId(last.room).status = "waiting"
    /\ {l \in levels : l.room_id = last.room /\ l.status = "active"} = {}

\* ===========================================================================
\* Facts about the datastore the migrations declare
\* ===========================================================================

\* No statement an authenticated identity can send adds a Level row: levels
\* has row-level security enabled and no policy for INSERT.
NoLevelRow == levels = {}

\* No Submission row is ever stored: level_id must reference a Level row.
NoSubmissionRow == submissions = {}

\* No room leaves the status it was inserted with: rooms has no policy for
\* UPDATE.
RoomsStayWaiting == \A r \in rooms : r.status = "waiting"

\* Room.fetchRoomData never sets currentLevel, so the editor that calls
\* runTests is never rendered.
NoCurrentLevel == last.op = "fetchRoomData" => (last.rows = {} /\ last.error # NoError)

\* No request of the pages writes users.points after the profile row is
\* inserted with the column's default.
PointsUntouched == \A p \in users : p.points = 0

\* AdminDashboard.fetchRooms never loads a room: its query is rejected, the
\* page sets its error and lists no room, whatever the rooms table holds.
RoomListNeverLoads ==
    \A u \in Identities :
        SelectOwnRooms(u).error = PolicyRecursion /\ SelectOwnRooms(u).rows = {}

====
